---------------------------- MODULE Spec2Model ----------------------------
(* A state-machine model of hailstone.py (Python 2): the histogram of     *)
(* hailstone (Collatz) sequence lengths over a range of start values.     *)
(* Python 2 integers are unbounded and `/` on integers is floor division. *)
EXTENDS Integers, Sequences, FiniteSets

(* ---------------------------------------------------------------------- *)
(* Bounds of the checked input space.                                     *)
(* ---------------------------------------------------------------------- *)
MaxStart == 7
NegStart == 1
MaxCap == 10
NegCap == 1
MaxBucket == 3
NegBucket == 2

(* ---------------------------------------------------------------------- *)
(* Python 2 integer arithmetic.                                           *)
(* ---------------------------------------------------------------------- *)
\* a / b on Python 2 ints, b # 0: the floor of the quotient, for every sign.
PyFloorDiv(a, b) == a \div b

\* a % b on Python 2 ints, b # 0: the remainder has the sign of the divisor.
PyMod(a, b) == a - b * (a \div b)

\* min(a, b)
PyMin(a, b) == IF b < a THEN b ELSE a

(* ---------------------------------------------------------------------- *)
(* hailstone(n): the next number of the sequence after n.                 *)
(* ---------------------------------------------------------------------- *)
\* the parity test inverted
hailstoneSwapped(n) == IF PyMod(n, 2) = 1 THEN PyFloorDiv(n, 2) ELSE 3 * n + 1

hailstone(n) == IF PyMod(n, 2) = 0 THEN PyFloorDiv(n, 2) ELSE 3 * n + 1

(* ---------------------------------------------------------------------- *)
(* hailstone_len(start, maxlength), as the loop it is.                    *)
(* ---------------------------------------------------------------------- *)
\* count = 1
CountInit == 1

\* the cap tested one too late
WhileCondLate(v, c, m) == v # 1 /\ c <= m + 1

\* the cap tested one too early
WhileCondStrict(v, c, m) == v # 1 /\ c < m

\* the test for 1 left out
WhileCondNoOne(v, c, m) == c <= m

\* the condition of the while loop
WhileCond(v, c, m) == v # 1 /\ c <= m

\* hailstone_len as a function: the count the loop returns when it is entered
\* with val = v and count = c
RECURSIVE LenFrom(_, _, _)
LenFrom(v, c, m) ==
  IF WhileCond(v, c, m)
  THEN LET nv == hailstone(v)
           nc == c + 1
       IN  LenFrom(nv, nc, m)
  ELSE c

hailstone_len(s, m) == LenFrom(s, CountInit, m)

(* ---------------------------------------------------------------------- *)
(* The main program.                                                      *)
(* ---------------------------------------------------------------------- *)
\* The four command-line arguments (lower, upper, maxlength, bucketsize)
\* the spec names as its end-to-end examples and known values.
KnownRuns ==
  { <<1, 10, 20, 5>>, <<1, 3, 20, 7>>, <<6, 6, 100, 10>>, <<27, 27, 1000, 100>> }

\* Every argument tuple within the bounds: valid runs, empty ranges,
\* starts <= 0, and a zero or negative maxlength or bucketsize.
GridRuns ==
  ((0 - NegStart)..MaxStart) \X ((0 - NegStart)..MaxStart)
    \X ((0 - NegCap)..MaxCap) \X ((0 - NegBucket)..MaxBucket)

Runs == GridRuns \cup KnownRuns

\* xrange(lower, upper): the upper bound left out
RangeHasNextExclusive(x, up) == x < up

\* a range that yields upper + 1 as well
RangeHasNextInclusive(x, up) == x <= up + 1

\* xrange(lower, upper + 1) still has a value to yield when the next one is x
RangeHasNext(x, up) == x < up + 1

\* the division not rounded up
NumBucketsFloor(m, b) == PyFloorDiv(m, b)

\* num_buckets = maxlength / bucketsize; if maxlength % bucketsize != 0: += 1
NumBuckets(m, b) ==
  IF PyMod(m, b) # 0 THEN PyFloorDiv(m, b) + 1 ELSE PyFloorDiv(m, b)

\* [0] * n: the empty list when n <= 0
ZeroList(n) == [k \in 1..n |-> 0]

\* the comparison made non-strict
IsOverflowGe(len, m) == len >= m

\* the condition that sends a length to the overflow counter
IsOverflow(len, m) == len > m

\* the subscript without the shift by one
BucketIndexNoShift(len, b) == PyFloorDiv(len, b)

\* the subscript of buckets[...] in the counting pass
BucketIndex(len, b) == PyFloorDiv(len - 1, b)

\* Python list subscript: valid for -len(s) <= k < len(s), negative k counting
\* from the end; anything else raises IndexError.
IndexOk(s, k) == 0 - Len(s) <= k /\ k < Len(s)
Pos(s, k) == IF k < 0 THEN Len(s) + k + 1 ELSE k + 1

\* low and high of the report line of bucket k
Low(k, b) == k * b + 1
High(k, b, m) == PyMin((k + 1) * b, m)

VARIABLES
  lower, upper, maxlength, bucketsize,  \* the parsed arguments
  num_buckets, buckets, overflow,       \* the histogram
  xr,                                   \* the next value xrange(lower, upper + 1) yields
  start, l,                             \* the loop variable and its length
  val, count,                           \* the locals of hailstone_len
  calls,                                \* how many times hailstone_len was called
  i, out,                               \* the report loop and the lines printed
  pc, err                               \* the position in the program; the exception raised

vars == << lower, upper, maxlength, bucketsize, num_buckets, buckets, overflow,
           xr, start, l, val, count, calls, i, out, pc, err >>

args == << lower, upper, maxlength, bucketsize >>

\* After line 20: the arguments are parsed, nothing else is bound yet
\* (the unbound names hold 0, the empty list or the empty string).
Init ==
  /\ \E r \in Runs :
       lower = r[1] /\ upper = r[2] /\ maxlength = r[3] /\ bucketsize = r[4]
  /\ num_buckets = 0 /\ buckets = << >> /\ overflow = 0
  /\ xr = 0 /\ start = 0 /\ l = 0 /\ val = 0 /\ count = 0 /\ calls = 0
  /\ i = 0 /\ out = << >>
  /\ pc = "setup" /\ err = ""

\* lines 21-26, when the division of line 21 is defined
Setup ==
  /\ pc = "setup"
  /\ bucketsize # 0
  /\ num_buckets' = NumBuckets(maxlength, bucketsize)
  /\ buckets' = ZeroList(num_buckets')
  /\ overflow' = 0
  /\ xr' = lower
  /\ pc' = "for"
  /\ UNCHANGED << lower, upper, maxlength, bucketsize, start, l, val, count,
                  calls, i, out, err >>

\* line 21 with bucketsize = 0: ZeroDivisionError, uncaught
SetupFail ==
  /\ pc = "setup"
  /\ bucketsize = 0
  /\ pc' = "failed"
  /\ err' = "ZeroDivisionError"
  /\ UNCHANGED << lower, upper, maxlength, bucketsize, num_buckets, buckets,
                  overflow, xr, start, l, val, count, calls, i, out >>

\* line 27 yields the next start, line 28 calls hailstone_len (lines 10-11)
ForNext ==
  /\ pc = "for"
  /\ RangeHasNext(xr, upper)
  /\ start' = xr
  /\ xr' = xr + 1
  /\ calls' = calls + 1
  /\ val' = xr
  /\ count' = CountInit
  /\ pc' = "while"
  /\ UNCHANGED << lower, upper, maxlength, bucketsize, num_buckets, buckets,
                  overflow, l, i, out, err >>

\* line 27, the range is exhausted: on to the report
ForEnd ==
  /\ pc = "for"
  /\ ~RangeHasNext(xr, upper)
  /\ pc' = "print"
  /\ UNCHANGED << lower, upper, maxlength, bucketsize, num_buckets, buckets,
                  overflow, xr, start, l, val, count, calls, i, out, err >>

\* an iteration that forgets count += 1
WhileStepNoCount ==
  /\ pc = "while"
  /\ WhileCond(val, count, maxlength)
  /\ val' = hailstone(val)
  /\ UNCHANGED << lower, upper, maxlength, bucketsize, num_buckets, buckets,
                  overflow, xr, start, l, count, calls, i, out, pc, err >>

\* lines 12-14: one iteration of the while loop
WhileStep ==
  /\ pc = "while"
  /\ WhileCond(val, count, maxlength)
  /\ val' = hailstone(val)
  /\ count' = count + 1
  /\ UNCHANGED << lower, upper, maxlength, bucketsize, num_buckets, buckets,
                  overflow, xr, start, l, calls, i, out, pc, err >>

\* lines 12 and 15: the loop exits, hailstone_len returns count into l
WhileExit ==
  /\ pc = "while"
  /\ ~WhileCond(val, count, maxlength)
  /\ l' = count
  /\ pc' = "tally"
  /\ UNCHANGED << lower, upper, maxlength, bucketsize, num_buckets, buckets,
                  overflow, xr, start, val, count, calls, i, out, err >>

\* lines 29-30
TallyOverflow ==
  /\ pc = "tally"
  /\ IsOverflow(l, maxlength)
  /\ overflow' = overflow + 1
  /\ pc' = "for"
  /\ UNCHANGED << lower, upper, maxlength, bucketsize, num_buckets, buckets,
                  xr, start, l, val, count, calls, i, out, err >>

\* lines 31-32, the subscript is in range
TallyBucket ==
  /\ pc = "tally"
  /\ ~IsOverflow(l, maxlength)
  /\ IndexOk(buckets, BucketIndex(l, bucketsize))
  /\ buckets' = [buckets EXCEPT ![Pos(buckets, BucketIndex(l, bucketsize))] = @ + 1]
  /\ pc' = "for"
  /\ UNCHANGED << lower, upper, maxlength, bucketsize, num_buckets, overflow,
                  xr, start, l, val, count, calls, i, out, err >>

\* lines 31-32, the subscript is out of range: IndexError, uncaught
TallyFail ==
  /\ pc = "tally"
  /\ ~IsOverflow(l, maxlength)
  /\ ~IndexOk(buckets, BucketIndex(l, bucketsize))
  /\ pc' = "failed"
  /\ err' = "IndexError"
  /\ UNCHANGED << lower, upper, maxlength, bucketsize, num_buckets, buckets,
                  overflow, xr, start, l, val, count, calls, i, out >>

\* line 34: the header; the report loop starts at i = 0
PrintHeader ==
  /\ pc = "print"
  /\ out' = << [kind |-> "header", low |-> lower, high |-> upper, n |-> 0] >>
  /\ i' = 0
  /\ pc' = "lines"
  /\ UNCHANGED << lower, upper, maxlength, bucketsize, num_buckets, buckets,
                  overflow, xr, start, l, val, count, calls, err >>

\* lines 35-38: the line of bucket i
PrintBucket ==
  /\ pc = "lines"
  /\ i < num_buckets
  /\ out' = Append(out, [kind |-> "bucket", low |-> Low(i, bucketsize),
                         high |-> High(i, bucketsize, maxlength),
                         n |-> buckets[i + 1]])
  /\ i' = i + 1
  /\ UNCHANGED << lower, upper, maxlength, bucketsize, num_buckets, buckets,
                  overflow, xr, start, l, val, count, calls, pc, err >>

\* line 40: the overflow line, and the program ends
PrintOverflow ==
  /\ pc = "lines"
  /\ ~(i < num_buckets)
  /\ out' = Append(out, [kind |-> "overflow", low |-> maxlength + 1,
                         high |-> maxlength + 1, n |-> overflow])
  /\ pc' = "done"
  /\ UNCHANGED << lower, upper, maxlength, bucketsize, num_buckets, buckets,
                  overflow, xr, start, l, val, count, calls, i, err >>

Next ==
  \/ Setup
  \/ SetupFail
  \/ ForNext
  \/ ForEnd
  \/ WhileStep
  \/ WhileExit
  \/ TallyOverflow
  \/ TallyBucket
  \/ TallyFail
  \/ PrintHeader
  \/ PrintBucket
  \/ PrintOverflow

Spec == Init /\ [][Next]_vars

\* The interpreter runs the single thread until it ends or raises.
FairSpec == Spec /\ WF_vars(Next)

(* ---------------------------------------------------------------------- *)
(* Vocabulary of the properties.                                          *)
(* ---------------------------------------------------------------------- *)
\* maxlength and bucketsize are positive, as the interface expects
ValidSizes == maxlength >= 1 /\ bucketsize >= 1

\* the counting pass is over
Counted == pc \in {"print", "lines", "done"}

RECURSIVE SumSeq(_)
SumSeq(s) == IF s = << >> THEN 0 ELSE Head(s) + SumSeq(Tail(s))

\* the value of the sequence of n after k steps: hailstone composed k times
\* (k steps are k \div 2 steps followed by the other k - k \div 2; the test
\* half = half has the first half evaluated before the second is entered)
RECURSIVE Iter(_, _)
Iter(n, k) ==
  IF k = 0 THEN n
  ELSE IF k = 1 THEN hailstone(n)
  ELSE LET half == Iter(n, k \div 2)
       IN  IF half = half THEN Iter(half, k - (k \div 2)) ELSE half

\* the steps s <= m after which the sequence of n is at 1
OneAt(n, m) == { s \in 0..m : Iter(n, s) = 1 }

SetMin(S) == CHOOSE x \in S : \A y \in S : x <= y

\* the bucket lines of the report, in order
BucketLines == SelectSeq(out, LAMBDA r : r.kind = "bucket")

(* ---------------------------------------------------------------------- *)
(* C1. With positive maxlength and bucketsize and lower <= upper, once    *)
(* the counting pass is over the bucket counters and the overflow counter *)
(* add up to upper - lower + 1: every start was counted exactly once.     *)
(* ---------------------------------------------------------------------- *)
C1_CountsAddUp ==
  (ValidSizes /\ lower <= upper /\ Counted)
    => SumSeq(buckets) + overflow = upper - lower + 1

C1_Witness ==
  /\ pc = "print" /\ ValidSizes /\ lower < upper
  /\ overflow >= 1 /\ SumSeq(buckets) >= 2

(* ---------------------------------------------------------------------- *)
(* C2. For maxlength >= 1 the length hailstone_len returns lies in        *)
(* 1..maxlength + 1; the loop body never runs once count exceeds          *)
(* maxlength; and a start goes to overflow exactly when its length is     *)
(* greater than maxlength.                                                *)
(* ---------------------------------------------------------------------- *)
C2_LengthCapped ==
  /\ [](pc = "tally" /\ maxlength >= 1 => 1 <= l /\ l <= maxlength + 1)
  /\ [][pc = "while" /\ pc' = "while" /\ maxlength >= 1 => count <= maxlength]_vars
  /\ [][pc = "tally" /\ pc' = "for" /\ maxlength >= 1
          => (overflow' = overflow + 1 <=> l > maxlength)]_vars

C2_Witness ==
  pc = "tally" /\ maxlength >= 2 /\ l = maxlength + 1 /\ val # 1 /\ start >= 1

(* ---------------------------------------------------------------------- *)
(* C3. For start >= 1 and maxlength >= 1 the length returned is 1 + the   *)
(* number of steps taken: min(s, maxlength) + 1 when the sequence first   *)
(* reaches 1 after s steps, maxlength + 1 when it does not reach 1 within *)
(* maxlength steps.  hailstone_len(1, m) = 1 with no step taken,          *)
(* hailstone_len(6, 100) = 9 and hailstone_len(27, 1000) = 112.           *)
(* ---------------------------------------------------------------------- *)
C3_LengthIsStepsPlusOne ==
  (pc = "tally" /\ start >= 1 /\ maxlength >= 1) =>
    /\ l = (IF OneAt(start, maxlength) = {} THEN maxlength
            ELSE SetMin(OneAt(start, maxlength))) + 1
    /\ (start = 1 => l = 1 /\ val = 1 /\ count = 1)
    /\ (start = 6 /\ maxlength = 100 => l = 9)
    /\ (start = 27 /\ maxlength = 1000 => l = 112)

C3_Witness == pc = "tally" /\ start = 27 /\ maxlength = 1000 /\ l = 112

(* ---------------------------------------------------------------------- *)
(* C4. A step of the loop replaces an even val by its exact half and an   *)
(* odd val by 3 * val + 1, and changes nothing but the two locals of      *)
(* hailstone_len.                                                         *)
(* ---------------------------------------------------------------------- *)
C4_StepRule ==
  [][pc = "while" /\ pc' = "while" =>
       /\ (val % 2 = 0 => 2 * val' = val)
       /\ (val % 2 = 1 => val' = 3 * val + 1)
       /\ UNCHANGED << lower, upper, maxlength, bucketsize, num_buckets,
                       buckets, overflow, xr, start, l, calls, i, out, err >>]_vars

C4_Witness == pc = "while" /\ start = 3 /\ count = 3 /\ val = 5

(* ---------------------------------------------------------------------- *)
(* C5. For positive maxlength and bucketsize the finished report is the   *)
(* header, then ceil(maxlength / bucketsize) bucket lines, line k         *)
(* labelled k * bucketsize + 1 to min((k + 1) * bucketsize, maxlength),   *)
(* the labels consecutive and covering exactly 1..maxlength, then one     *)
(* overflow line labelled maxlength + 1.  maxlength 20 and bucketsize 7   *)
(* give 1-7, 8-14, 15-20; (1, 10, 20, 5) gives 1-5, 6-10, 11-15, 16-20    *)
(* and 21+, the counts adding up to 10.                                   *)
(* ---------------------------------------------------------------------- *)
\* the least k with k * b >= m
Ceil(m, b) == SetMin({ k \in 0..m : k * b >= m })

Labels(s) == [k \in 1..Len(s) |-> << s[k].low, s[k].high >>]
Counts(s) == [k \in 1..Len(s) |-> s[k].n]

C5_ReportShape ==
  (pc = "done" /\ ValidSizes) =>
    LET K == Ceil(maxlength, bucketsize) IN
    /\ Len(out) = K + 2
    /\ out[1].kind = "header" /\ out[1].low = lower /\ out[1].high = upper
    /\ \A k \in 0..(K - 1) :
         /\ out[k + 2].kind = "bucket"
         /\ out[k + 2].low = k * bucketsize + 1
         /\ out[k + 2].high =
              (IF (k + 1) * bucketsize <= maxlength THEN (k + 1) * bucketsize
               ELSE maxlength)
         /\ out[k + 2].low <= out[k + 2].high
         /\ (k > 0 => out[k + 2].low = out[k + 1].high + 1)
         /\ (k < K - 1 => out[k + 2].high - out[k + 2].low = bucketsize - 1)
    /\ out[2].low = 1
    /\ out[K + 1].high = maxlength
    /\ out[K + 2].kind = "overflow" /\ out[K + 2].low = maxlength + 1
    /\ (maxlength = 20 /\ bucketsize = 7
          => Labels(BucketLines) = << <<1, 7>>, <<8, 14>>, <<15, 20>> >>)
    /\ (args = <<1, 10, 20, 5>>
          => /\ Labels(BucketLines) = << <<1, 5>>, <<6, 10>>, <<11, 15>>, <<16, 20>> >>
             /\ out[6].low = 21
             /\ SumSeq(Counts(BucketLines)) + out[6].n = 10)

C5_Witness ==
  pc = "done" /\ maxlength = 20 /\ bucketsize = 7 /\ Len(BucketLines) = 3

(* ---------------------------------------------------------------------- *)
(* C6. As claimed: with bucketsize zero or negative the run always ends   *)
(* in an unhandled failure and never prints a report.                     *)
(* ---------------------------------------------------------------------- *)
C6_NeverReports == bucketsize <= 0 => pc # "done"

(* C6, amended.  With bucketsize zero the run always fails, with          *)
(* ZeroDivisionError, before the counting pass and before anything is     *)
(* printed.  With bucketsize negative the run ends, and it fails (with    *)
(* IndexError in the counting pass, nothing printed) exactly when some    *)
(* start of lower..upper has a length <= maxlength; when there is none    *)
(* (an empty range, maxlength <= 0, every start over the cap) the report  *)
(* is printed.                                                            *)
C6_FailsOnlyOnCountedStart ==
  /\ [](bucketsize = 0 => pc \in {"setup", "failed"} /\ out = << >> /\ calls = 0)
  /\ (bucketsize = 0 ~> (pc = "failed" /\ err = "ZeroDivisionError"))
  /\ (bucketsize < 0 ~> pc \in {"done", "failed"})
  /\ [](bucketsize < 0 /\ pc = "failed" =>
          /\ err = "IndexError" /\ out = << >>
          /\ start \in lower..upper
          /\ hailstone_len(start, maxlength) <= maxlength)
  /\ [](bucketsize < 0 /\ Counted =>
          \A s \in lower..upper : hailstone_len(s, maxlength) > maxlength)

C6_Witness ==
  pc = "failed" /\ err = "IndexError" /\ bucketsize < 0 /\ overflow >= 1

(* ---------------------------------------------------------------------- *)
(* C7. With lower > upper and positive maxlength and bucketsize the run   *)
(* does not fail, hailstone_len is never called, every counter stays 0,   *)
(* and the report is printed, every line of it with count 0.              *)
(* ---------------------------------------------------------------------- *)
C7_EmptyRange ==
  /\ [](ValidSizes /\ lower > upper =>
          /\ pc # "failed" /\ calls = 0 /\ overflow = 0
          /\ \A k \in 1..Len(buckets) : buckets[k] = 0
          /\ (pc = "done" =>
                /\ Len(out) = num_buckets + 2
                /\ out[Len(out)].kind = "overflow"
                /\ \A j \in 2..Len(out) : out[j].n = 0))
  /\ ((ValidSizes /\ lower > upper) ~> pc = "done")

C7_Witness == pc = "done" /\ ValidSizes /\ lower > upper /\ num_buckets >= 2

(* ---------------------------------------------------------------------- *)
(* C8. As claimed (for positive maxlength and bucketsize): whenever the   *)
(* counting pass increments overflow, the value hailstone_len held when   *)
(* its loop exited was not 1.                                             *)
(* ---------------------------------------------------------------------- *)
C8_OverflowNeverAtOne ==
  [][ValidSizes /\ overflow' = overflow + 1 => val # 1]_vars

(* C8, amended.  Whenever the counting pass increments overflow, the      *)
(* sequence of the start had not reached 1 in fewer than maxlength steps  *)
(* (none of its first maxlength values is 1), and for maxlength >= 0 the  *)
(* loop took exactly maxlength steps.  The value at the exit may be 1:    *)
(* a start that first reaches 1 on step maxlength is counted in overflow. *)
C8_OverflowNotOneBeforeCap ==
  [][overflow' = overflow + 1 =>
       /\ \A k \in 0..(maxlength - 1) : Iter(start, k) # 1
       /\ (maxlength >= 0 => l = maxlength + 1 /\ count = maxlength + 1)
       /\ val = Iter(start, count - 1)]_vars

C8_Witness ==
  pc = "for" /\ overflow >= 1 /\ val = 1 /\ l = maxlength + 1 /\ maxlength >= 2

(* ---------------------------------------------------------------------- *)
(* C9. hailstone_len terminates for every start (also <= 0, also when the *)
(* sequence never reaches 1 within the cap) and every maxlength: each     *)
(* iteration adds 1 to count, there are at most maxlength iterations      *)
(* (none when maxlength <= 0), the loop is left, every counting pass      *)
(* ends, and with a positive bucketsize it ends at the report.            *)
(* ---------------------------------------------------------------------- *)
C9_Terminates ==
  /\ [][pc = "while" /\ pc' = "while" => count' = count + 1]_vars
  /\ [](pc = "while" =>
          count >= 1 /\ count - 1 <= (IF maxlength > 0 THEN maxlength ELSE 0))
  /\ (pc = "while" ~> pc = "tally")
  /\ (pc = "for" ~> pc \in {"print", "failed"})
  /\ (bucketsize > 0 ~> Counted)

C9_Witness ==
  pc = "tally" /\ start <= 0 /\ maxlength >= 2 /\ count = maxlength + 1 /\ val # 1

(* ---------------------------------------------------------------------- *)
(* C10. For positive maxlength and bucketsize, a start whose length l is  *)
(* at most maxlength increments the bucket of index (l - 1) div           *)
(* bucketsize, an index of 0..num_buckets - 1, and no other counter; and  *)
(* l lies inside the range the report prints for that bucket: each bucket *)
(* line counts the starts whose length lies within its label.             *)
(* ---------------------------------------------------------------------- *)
C10_BucketChosen ==
  /\ [][pc = "tally" /\ ValidSizes /\ l <= maxlength =>
          LET k == (l - 1) \div bucketsize IN
          /\ Len(buckets) = num_buckets
          /\ k \in 0..(num_buckets - 1)
          /\ k * bucketsize + 1 <= l /\ l <= (k + 1) * bucketsize
          /\ pc' = "for"
          /\ buckets' = [buckets EXCEPT ![k + 1] = @ + 1]
          /\ overflow' = overflow]_vars
  /\ [](pc = "done" /\ ValidSizes =>
          /\ \A j \in 1..Len(BucketLines) :
               BucketLines[j].n =
                 Cardinality({ s \in lower..upper :
                                 /\ BucketLines[j].low <= hailstone_len(s, maxlength)
                                 /\ hailstone_len(s, maxlength) <= BucketLines[j].high })
          /\ out[Len(out)].n =
               Cardinality({ s \in lower..upper :
                               hailstone_len(s, maxlength) > maxlength }))

C10_Witness ==
  /\ pc = "for" /\ ValidSizes /\ calls >= 1 /\ l <= maxlength
  /\ (l - 1) \div bucketsize >= 1
  /\ buckets[(l - 1) \div bucketsize + 1] >= 1

=============================================================================
